---- MODULE Spec2Model ----
(***************************************************************************)
(* The overseer worker (src/cmd_worker.go): the job loop of                *)
(* workerCmd.Execute, workerCmd.runTest and workerCmd.notify, with the     *)
(* k8s-svc probe's ShouldResolveHostname.                                  *)
(*                                                                         *)
(* Strings the code takes apart (targets, input lines) are sequences of    *)
(* string tokens, so that Contains, Split, url.Parse and Sanitize are      *)
(* computed rather than assumed.  A Go error value is a record with a nil  *)
(* flag and a message.  The "time" field of a result message is the wall   *)
(* clock and is left out of the message.                                   *)
(***************************************************************************)
EXTENDS Integers, Sequences, FiniteSets, Bags, TLC

\* Largest RetryCount the configuration is drawn from.
MaxRetryCount == 3
\* Most addresses one DNS answer holds.
MaxIPs == 2
\* Most jobs the producer enqueues while the fleet of workers is watched.
MaxJobs == 3
\* Workers popping the same jobs queue.
NumWorkers == 2
\* Most payloads that arrive on the results queue while the router is watched.
MaxResults == 2
\* Most subsets of an Endpoints object, and most addresses of a subset.
MaxSubsets == 2
MaxAddresses == 2

VARIABLES
  cfg,          \* workerCmd: IPv4, IPv6, Retry, RetryCount
  pc,           \* where the worker is: pop, runTest, target, loop, sleep, crashed
  popped,       \* what the last BLPop gave: none, empty, parse_error, job
  tst,          \* runTest's tst
  dns,          \* how name resolution of the job went: none, badurl, failed, ok
  ips,          \* runTest's ips
  targets,      \* runTest's targets
  ti,           \* index of the target the range loop is at
  attempt,      \* runTest's attempt
  maxAttempts,  \* runTest's maxAttempts
  result,       \* runTest's result
  runs,         \* history: the RunTest calls of this job
  sleeps,       \* history: the time.Sleep calls of this job (target index each)
  pushes,       \* history: the RPush calls of this job on overseer.results
  lookups,      \* history: the net.LookupIP calls of this job
  jobsQ,        \* fleet: the list overseer.jobs (ids of enqueued jobs)
  enqueued,     \* fleet: how many jobs the producer has enqueued
  workers,      \* fleet: each worker process: state, job, targets, target at
  taken,        \* fleet history: the bag of pops that gave a job, [job, worker]
  delivered,    \* fleet: the bag of Results on overseer.results, [job, target, worker]
  bindings,     \* router: the -dest-queue flags it was started with
  resultsQ,     \* router: the payloads on overseer.results
  arrived,      \* router: how many payloads have arrived
  dests,        \* router: the destination queues, by name
  routed,       \* router history: the Results it has popped and decoded
  k8s           \* the k8s-svc probe: the call in hand and what it returned

workerVars == <<cfg, pc, popped, tst, dns, ips, targets, ti, attempt,
                maxAttempts, result, runs, sleeps, pushes, lookups>>

fleetVars == <<jobsQ, enqueued, workers, taken, delivered>>

routerVars == <<bindings, resultsQ, arrived, dests, routed>>

k8sVars == <<k8s>>

vars == <<workerVars, fleetVars, routerVars, k8sVars>>

----------------------------------------------------------------------------
\* Go values

NilError == [nil |-> TRUE, msg |-> <<>>]

Err(msg) == [nil |-> FALSE, msg |-> msg]

NoTest == [Type |-> "", Target |-> <<>>, Input |-> <<>>]

\* strings.Contains(s, tok)
Contains(s, tok) == \E i \in 1..Len(s) : s[i] = tok

RECURSIVE Count(_, _)
Count(s, tok) ==
  IF s = <<>> THEN 0
  ELSE (IF Head(s) = tok THEN 1 ELSE 0) + Count(Tail(s), tok)

----------------------------------------------------------------------------
\* net.IP as runTest uses it: a byte slice of length 4 or 16 (nil: length 0)

NoIP == [len |-> 0, prefix |-> "", host |-> ""]

IP4 == [len |-> 4, prefix |-> "", host |-> "10.0.0.1"]

IP4in6 == [len |-> 16, prefix |-> "::ffff:", host |-> "10.0.0.1"]

IP6 == [len |-> 16, prefix |-> "", host |-> "2001:db8::1"]

IPs == {IP4, IP4in6, IP6}

To4(ip) ==
  IF ip.len = 4 THEN ip
  ELSE IF ip.len = 16 /\ ip.prefix = "::ffff:"
       THEN [len |-> 4, prefix |-> "", host |-> ip.host]
       ELSE NoIP

To16(ip) ==
  IF ip.len = 4 THEN [len |-> 16, prefix |-> "::ffff:", host |-> ip.host]
  ELSE IF ip.len = 16 THEN ip
       ELSE NoIP

IPString(ip) ==
  IF ip.len = 0 THEN <<"<nil>">>
  ELSE IF To4(ip) # NoIP THEN <<To4(ip).host>>
       ELSE <<ip.host>>

\* The answers of length 1..n over the addresses
RECURSIVE Answers(_)
Answers(n) ==
  IF n = 0 THEN {}
  ELSE Answers(n - 1) \cup [1..n -> IPs]

----------------------------------------------------------------------------
\* The collaborators runTest calls

\* The payloads a producer may have put on overseer.jobs
Lines ==
  { <<"example.com", "must", "run", "ssh">>,
    <<"example.com", "must", "run", "ssh", "with", "password", "hunter2">>,
    <<"https", "://", "example.com", "must", "run", "ssh">>,
    <<"https", "://", "%zz", "must", "run", "ssh">>,
    <<"10.0.0.1", "must", "run", "ssh">>,
    <<"default", "/", "kubernetes", "must", "run", "k8s-svc">>,
    <<"example.com", "must", "run", "k8s-svc">>,
    <<"example.com", "must", "run", "bogus">>,
    <<"example.com", "must", "frobnicate">> }

\* parser.ParseLine: "<target> must run <type> ...", or a parse error
ParseLine(line) ==
  LET at == {i \in 2..(Len(line) - 2) : line[i] = "must" /\ line[i + 1] = "run"}
  IN IF at = {}
     THEN [err |-> Err(<<"Unrecognized line">>), test |-> NoTest]
     ELSE LET i == CHOOSE j \in at : \A k \in at : j <= k
          IN [err |-> NilError,
              test |-> [Type |-> line[i + 2],
                        Target |-> SubSeq(line, 1, i - 1),
                        Input |-> line]]

\* test.Test.Sanitize: the word after "password" is censored
Sanitize(t) ==
  [i \in 1..Len(t.Input) |->
     IF i > 1 /\ t.Input[i - 1] = "password" THEN "CENSORED" ELSE t.Input[i]]

\* The probes registered at startup
Registered == {"ssh", "k8s-svc"}

\* protocols.ProtocolHandler: the probe of a type, nil for an unknown type
ProtocolHandler(type) == IF type \in Registered THEN type ELSE "nil"

\* K8SSvcTest.ShouldResolveHostname is false; the network probes' is true
ShouldResolveHostname(handler) == handler # "k8s-svc"

\* URLParse with the whole target kept as the host
URLParse_WholeTarget(target) ==
  IF Contains(target, "%zz")
  THEN [err |-> Err(<<"invalid URL escape">>), Hostname |-> <<>>]
  ELSE [err |-> NilError, Hostname |-> target]

\* url.Parse and URL.Hostname of a target that holds "://"
URLParse(target) ==
  LET i == CHOOSE j \in 1..Len(target) : target[j] = "://"
  IN IF Contains(target, "%zz")
     THEN [err |-> Err(<<"invalid URL escape">>), Hostname |-> <<>>]
     ELSE [err |-> NilError,
           Hostname |-> IF i < Len(target) THEN <<target[i + 1]>> ELSE <<>>]

\* net.LookupIP: what the resolver may answer for a name.  An address
\* literal is its own answer, a name that is no domain name never resolves,
\* and any other name resolves to some addresses or fails.
LookupIP(name) ==
  LET failed == [err |-> Err(<<"no such host">>), ips |-> <<>>]
  IN IF name = <<"10.0.0.1">> THEN {[err |-> NilError, ips |-> <<IP4in6>>]}
     ELSE IF Len(name) # 1 THEN {failed}
     ELSE {failed} \cup {[err |-> NilError, ips |-> a] : a \in Answers(MaxIPs)}

\* What a probe's RunTest may return on the given attempt: the k8s-svc probe
\* refuses a target that is not namespace/service, any probe may pass or fail
RunTestOutcomes(handler, target, n) ==
  LET failure == Err(<<"probe failed", ToString(n)>>)
  IN IF handler = "k8s-svc" /\ Count(target, "/") + 1 # 2
     THEN {Err(<<"not a valid namespace-name/service-name target", ToString(n)>>)}
     ELSE {NilError, failure}

----------------------------------------------------------------------------
\* workerCmd.notify and the pieces of workerCmd.runTest

\* notify: the message published for a test and its result
NotifyMsg(test, res) ==
  IF res.nil
  THEN [input |-> test.Input, result |-> "passed", target |-> test.Target,
        type |-> test.Type]
  ELSE [input |-> test.Input, result |-> "failed", target |-> test.Target,
        type |-> test.Type, error |-> res.msg]

\* FamilyTargets with the IPv6 toggle not consulted
RECURSIVE FamilyTargets_ToggleIgnored(_, _, _)
FamilyTargets_ToggleIgnored(answer, v4, v6) ==
  IF answer = <<>> THEN <<>>
  ELSE LET ip == Head(answer)
           a == IF To4(ip) # NoIP /\ v4 THEN <<IPString(ip)>> ELSE <<>>
           b == IF To16(ip) # NoIP /\ To4(ip) = NoIP
                THEN <<IPString(ip)>> ELSE <<>>
       IN a \o b \o FamilyTargets_ToggleIgnored(Tail(answer), v4, v6)

\* FamilyTargets with the IPv4 addresses of the answer put first
FamilyTargets_V4First(answer, v4, v6) ==
  LET four == SelectSeq(answer, LAMBDA ip : To4(ip) # NoIP /\ v4)
      six == SelectSeq(answer, LAMBDA ip : To16(ip) # NoIP /\ To4(ip) = NoIP /\ v6)
  IN [i \in 1..Len(four) |-> IPString(four[i])]
       \o [i \in 1..Len(six) |-> IPString(six[i])]

\* The address-family filter: the targets of a DNS answer
RECURSIVE FamilyTargets(_, _, _)
FamilyTargets(answer, v4, v6) ==
  IF answer = <<>> THEN <<>>
  ELSE LET ip == Head(answer)
           a == IF To4(ip) # NoIP /\ v4 THEN <<IPString(ip)>> ELSE <<>>
           b == IF To16(ip) # NoIP /\ To4(ip) = NoIP /\ v6
                THEN <<IPString(ip)>> ELSE <<>>
       IN a \o b \o FamilyTargets(Tail(answer), v4, v6)

\* MaxAttempts with the Retry flag not consulted
MaxAttempts_RetryIgnored(retry, retryCount) == retryCount

\* maxAttempts of a target
MaxAttempts(retry, retryCount) == IF retry = FALSE THEN 0 + 1 ELSE retryCount

\* AttemptAfterPass without the break
AttemptAfterPass_NoBreak(att, max) == att

\* attempt after a passing RunTest: "break out of loop"
AttemptAfterPass(att, max) == max + 1

\* CopyForTarget with the Target left as submitted
CopyForTarget_TargetKept(test, target) ==
  [Type |-> test.Type, Target |-> test.Target, Input |-> Sanitize(test)]

\* The copy of the test that is notified for a target
CopyForTarget(test, target) ==
  [Type |-> test.Type, Target |-> target, Input |-> Sanitize(test)]

\* AfterNotify returning from runTest when the push failed
AfterNotify_StopOnError(pushed, more) ==
  IF more /\ pushed THEN "target" ELSE "pop"

\* The error notified when LookupIP failed, with the result dropped
ResolveError_Dropped(testTarget) == NilError

\* The error notified when LookupIP failed
ResolveError(testTarget) == Err(<<"Failed to resolve name">> \o testTarget)

\* Where runTest goes after notify returned for a target: the value notify
\* returns is dropped, the range loop goes on
AfterNotify(pushed, more) == IF more THEN "target" ELSE "pop"

----------------------------------------------------------------------------
\* The worker

Configs ==
  [IPv4 : BOOLEAN, IPv6 : BOOLEAN, Retry : BOOLEAN,
   RetryCount : (0 - 1)..MaxRetryCount]

\* The fleet with nothing enqueued and every worker waiting in BLPop
FleetIdle ==
  /\ jobsQ = <<>>
  /\ enqueued = 0
  /\ workers = [w \in 1..NumWorkers |-> [state |-> "pop", job |-> 0, n |-> 0, at |-> 0]]
  /\ taken = EmptyBag
  /\ delivered = EmptyBag

\* The destination queues the router's flags may name
DestQueues ==
  {"overseer.results.email", "overseer.results.alerts",
   "overseer.results.other", "overseer.results.failures"}

\* The router not started: no flags, nothing arrived
RouterIdle ==
  /\ bindings = {}
  /\ resultsQ = <<>>
  /\ arrived = 0
  /\ dests = [q \in DestQueues |-> <<>>]
  /\ routed = <<>>

\* No k8s-svc call in hand
K8sIdle == k8s = [at |-> "idle"]

\* Execute has connected and is about to wait for its first job
Init ==
  /\ FleetIdle
  /\ RouterIdle
  /\ K8sIdle
  /\ cfg \in Configs
  /\ pc = "pop"
  /\ popped = "none"
  /\ tst = NoTest
  /\ dns = "none"
  /\ ips = <<>>
  /\ targets = <<>>
  /\ ti = 0
  /\ attempt = 0
  /\ maxAttempts = 0
  /\ result = NilError
  /\ runs = <<>>
  /\ sleeps = <<>>
  /\ pushes = <<>>
  /\ lookups = <<>>

\* The locals and the history of the job before are gone
Fresh(kind, test) ==
  /\ popped' = kind
  /\ tst' = test
  /\ dns' = "none"
  /\ ips' = <<>>
  /\ targets' = <<>>
  /\ ti' = 0
  /\ attempt' = 0
  /\ maxAttempts' = 0
  /\ result' = NilError
  /\ runs' = <<>>
  /\ sleeps' = <<>>
  /\ pushes' = <<>>
  /\ lookups' = <<>>

\* Execute's loop: BLPop on overseer.jobs, ParseLine, runTest.  A failed pop
\* gives an empty reply; a reply is the queue's name and the payload.
BLPop ==
  /\ pc = "pop"
  /\ \E reply \in {<<>>} \cup {<<"overseer.jobs", l>> : l \in Lines} :
       IF Len(reply) >= 1
       THEN LET job == ParseLine(reply[2])
            IN IF job.err.nil
               THEN pc' = "runTest" /\ Fresh("job", job.test)
               ELSE pc' = "pop" /\ Fresh("parse_error", NoTest)
       ELSE pc' = "pop" /\ Fresh("empty", NoTest)
  /\ UNCHANGED cfg
  /\ UNCHANGED <<fleetVars, routerVars, k8sVars>>

\* runTest up to the range loop: the handler, the host of a URI, LookupIP
\* (a failure is notified and ends the job), the address-family filter
Resolve ==
  /\ pc = "runTest"
  /\ LET isURI == Contains(tst.Target, "://")
         u == URLParse(tst.Target)
     IN IF isURI /\ ~u.err.nil
        THEN /\ pc' = "pop"
             /\ dns' = "badurl"
             /\ UNCHANGED <<ips, targets, ti, pushes, lookups>>
        ELSE LET testTarget == IF isURI THEN u.Hostname ELSE tst.Target
             IN \E answer \in LookupIP(testTarget) :
                  /\ lookups' = Append(lookups, testTarget)
                  /\ IF ~answer.err.nil
                     THEN /\ \E pushed \in BOOLEAN :
                               pushes' = Append(pushes,
                                 [msg |-> NotifyMsg(tst, ResolveError(testTarget)),
                                  ok |-> pushed])
                          /\ pc' = "pop"
                          /\ dns' = "failed"
                          /\ UNCHANGED <<ips, targets, ti>>
                     ELSE /\ ips' = answer.ips
                          /\ targets' = FamilyTargets(answer.ips, cfg.IPv4, cfg.IPv6)
                          /\ dns' = "ok"
                          /\ ti' = 1
                          /\ pc' = IF targets' = <<>> THEN "pop" ELSE "target"
                          /\ UNCHANGED pushes
  /\ UNCHANGED <<cfg, popped, tst, attempt, maxAttempts, result, runs, sleeps>>
  /\ UNCHANGED <<fleetVars, routerVars, k8sVars>>

\* The head of the range loop's body for the next target
StartTarget ==
  /\ pc = "target"
  /\ attempt' = 0
  /\ maxAttempts' = MaxAttempts(cfg.Retry, cfg.RetryCount)
  /\ result' = NilError
  /\ pc' = "loop"
  /\ UNCHANGED <<cfg, popped, tst, dns, ips, targets, ti, runs, sleeps, pushes,
                 lookups>>
  /\ UNCHANGED <<fleetVars, routerVars, k8sVars>>

\* One pass of the attempt loop up to the sleep: RunTest on the handler (a
\* nil handler panics), and a pass ends the loop
Attempt ==
  /\ pc = "loop"
  /\ attempt < maxAttempts
  /\ LET handler == ProtocolHandler(tst.Type)
     IN IF handler = "nil"
        THEN /\ pc' = "crashed"
             /\ attempt' = attempt + 1
             /\ UNCHANGED <<result, runs>>
        ELSE \E res \in RunTestOutcomes(handler, targets[ti], attempt + 1) :
               /\ result' = res
               /\ runs' = Append(runs, [ti |-> ti, target |-> targets[ti],
                                        attempt |-> attempt + 1, res |-> res])
               /\ IF res.nil
                  THEN /\ attempt' = AttemptAfterPass(attempt + 1, maxAttempts)
                       /\ pc' = "loop"
                  ELSE /\ attempt' = attempt + 1
                       /\ pc' = "sleep"
  /\ UNCHANGED <<cfg, popped, tst, dns, ips, targets, ti, maxAttempts, sleeps,
                 pushes, lookups>>
  /\ UNCHANGED <<fleetVars, routerVars, k8sVars>>

\* time.Sleep(p.RetryDelay) after a failed RunTest
Sleep ==
  /\ pc = "sleep"
  /\ sleeps' = Append(sleeps, ti)
  /\ pc' = "loop"
  /\ UNCHANGED <<cfg, popped, tst, dns, ips, targets, ti, attempt, maxAttempts,
                 result, runs, pushes, lookups>>
  /\ UNCHANGED <<fleetVars, routerVars, k8sVars>>

\* Notify placed inside the attempt loop: every attempt made is notified
Notify_EveryAttempt ==
  /\ pc = "loop"
  /\ attempt >= 1 \/ ~(attempt < maxAttempts)
  /\ \E pushed \in BOOLEAN :
       pushes' = Append(pushes,
         [msg |-> NotifyMsg(CopyForTarget(tst, targets[ti]), result),
          ok |-> pushed])
  /\ IF attempt < maxAttempts
     THEN /\ result.nil = FALSE
          /\ pc' = "loop" /\ ti' = ti
          /\ Len(pushes) < ti + maxAttempts
     ELSE pc' = AfterNotify(TRUE, ti < Len(targets)) /\ ti' = ti + 1
  /\ UNCHANGED <<cfg, popped, tst, dns, ips, targets, attempt, maxAttempts,
                 result, runs, sleeps, lookups>>
  /\ UNCHANGED <<fleetVars, routerVars, k8sVars>>

\* After the attempt loop: notify the copy of the test; the push may fail
Notify ==
  /\ pc = "loop"
  /\ ~(attempt < maxAttempts)
  /\ \E pushed \in BOOLEAN :
       /\ pushes' = Append(pushes,
            [msg |-> NotifyMsg(CopyForTarget(tst, targets[ti]), result),
             ok |-> pushed])
       /\ pc' = AfterNotify(pushed, ti < Len(targets))
  /\ ti' = ti + 1
  /\ UNCHANGED <<cfg, popped, tst, dns, ips, targets, attempt, maxAttempts,
                 result, runs, sleeps, lookups>>
  /\ UNCHANGED <<fleetVars, routerVars, k8sVars>>

Next == BLPop \/ Resolve \/ StartTarget \/ Attempt \/ Sleep \/ Notify

Spec == Init /\ [][Next]_vars

\* A worker that is not waiting in BLPop runs on: LookupIP, RunTest,
\* time.Sleep and RPush return.  The pop itself may wait for ever.
Fairness ==
  /\ WF_vars(Resolve)
  /\ WF_vars(StartTarget)
  /\ WF_vars(Attempt)
  /\ WF_vars(Sleep)
  /\ WF_vars(Notify)

FairSpec == Spec /\ Fairness

----------------------------------------------------------------------------
\* Several worker processes on the same overseer.jobs.  A worker's job is
\* kept to what the queues see of it: the pop, one push per target, and the
\* process ending at any point.

\* The producer (the overseer-enqueue CronJob) puts a job on the list
Enqueue ==
  /\ enqueued < MaxJobs
  /\ enqueued' = enqueued + 1
  /\ jobsQ' = Append(jobsQ, enqueued + 1)
  /\ UNCHANGED <<workers, taken, delivered>>
  /\ UNCHANGED <<workerVars, routerVars, k8sVars>>

\* PopReply that reads the head and leaves it on the list
PopReply_Peek(queue) == [job |-> Head(queue), rest |-> queue]

\* BLPop on a list that holds something: the head is removed and returned
PopReply(queue) == [job |-> Head(queue), rest |-> Tail(queue)]

\* Worker w's BLPop returns a job; runTest finds its n targets (none when the
\* line does not parse, the URI is bad or no address family is enabled)
FleetPop(w) ==
  /\ workers[w].state = "pop"
  /\ jobsQ # <<>>
  /\ LET reply == PopReply(jobsQ)
     IN /\ jobsQ' = reply.rest
        /\ taken' = taken (+) SetToBag({[job |-> reply.job, worker |-> w]})
        /\ \E n \in {0, 1, 2} :
             workers' = [workers EXCEPT ![w] =
               IF n = 0 THEN [state |-> "pop", job |-> 0, n |-> 0, at |-> 0]
               ELSE [state |-> "running", job |-> reply.job, n |-> n, at |-> 1]]
  /\ UNCHANGED <<enqueued, delivered>>
  /\ UNCHANGED <<workerVars, routerVars, k8sVars>>

\* Worker w notifies the Result of the target it is at; the push may fail
FleetPush(w) ==
  /\ workers[w].state = "running"
  /\ \E pushed \in BOOLEAN :
       delivered' = IF pushed
                    THEN delivered (+) SetToBag({[job |-> workers[w].job,
                                                  target |-> workers[w].at,
                                                  worker |-> w]})
                    ELSE delivered
  /\ workers' = [workers EXCEPT ![w] =
                  IF workers[w].at = workers[w].n
                  THEN [state |-> "pop", job |-> 0, n |-> 0, at |-> 0]
                  ELSE [workers[w] EXCEPT !.at = @ + 1]]
  /\ UNCHANGED <<jobsQ, enqueued, taken>>
  /\ UNCHANGED <<workerVars, routerVars, k8sVars>>

\* Worker w's process ends (a deploy, a crash): nothing is put back
FleetStop(w) ==
  /\ workers[w].state \in {"pop", "running"}
  /\ workers' = [workers EXCEPT ![w].state = "stopped"]
  /\ UNCHANGED <<jobsQ, enqueued, taken, delivered>>
  /\ UNCHANGED <<workerVars, routerVars, k8sVars>>

\* A new worker process takes the place of one that ended
FleetStart(w) ==
  /\ workers[w].state = "stopped"
  /\ workers' = [workers EXCEPT ![w] = [state |-> "pop", job |-> 0, n |-> 0, at |-> 0]]
  /\ UNCHANGED <<jobsQ, enqueued, taken, delivered>>
  /\ UNCHANGED <<workerVars, routerVars, k8sVars>>

FleetInit ==
  /\ Init
  /\ cfg = [IPv4 |-> TRUE, IPv6 |-> TRUE, Retry |-> TRUE, RetryCount |-> MaxRetryCount]

FleetPopSome == \E w \in 1..NumWorkers : FleetPop(w)

FleetPushSome == \E w \in 1..NumWorkers : FleetPush(w)

FleetStopSome == \E w \in 1..NumWorkers : FleetStop(w)

FleetStartSome == \E w \in 1..NumWorkers : FleetStart(w)

FleetNext ==
  Enqueue \/ FleetPopSome \/ FleetPushSome \/ FleetStopSome \/ FleetStartSome

FleetSpec == FleetInit /\ [][FleetNext]_vars

----------------------------------------------------------------------------
\* The queue bridge (router): overseer.results to the -dest-queue queues

\* The -dest-queue flags a bridge may be started with: a queue name, with or
\* without a filter in brackets
DestFlags ==
  { <<"overseer.results.email">>,
    <<"overseer.results.alerts", "[", "target", "=", "10.0.0.1", "]">>,
    <<"overseer.results.other", "[", "target", "=", "10.0.0.2", "]">>,
    <<"overseer.results.failures", "[", "type", "=", "ssh", ",",
      "result", "=", "failed", "]">> }

\* A flag parsed: the queue and the field=value pairs of its filter, in order
ParseDest(flag) ==
  [queue |-> flag[1],
   pred |-> [k \in 1..((Len(flag) - 1) \div 4) |->
               [field |-> flag[4 * k - 1], value |-> <<flag[4 * k + 1]>>]]]

\* The Results that may be on overseer.results, as notify publishes them
Results ==
  { NotifyMsg([Type |-> t, Target |-> <<a>>, Input |-> <<a, "must", "run", t>>], r) :
      t \in Registered, a \in {"10.0.0.1", "10.0.0.2"},
      r \in {NilError, Err(<<"connection refused">>)} }

\* The payloads: the JSON of a Result, or something that does not decode
\* (msg holds the decoded Result, if there is one)
Payloads == {[json |-> TRUE, msg |-> <<m>>] : m \in Results}
              \cup {[json |-> FALSE, msg |-> <<>>]}

\* The text of a field of a decoded Result
FieldText(m, f) == IF f \in {"type", "result"} THEN <<m[f]>> ELSE m[f]

\* FilterMatches taking one matching pair for enough
FilterMatches_AnyPair(pred, m) ==
  \/ pred = <<>>
  \/ \E k \in 1..Len(pred) :
       pred[k].field \in DOMAIN m /\ FieldText(m, pred[k].field) = pred[k].value

\* The filter of a destination on a Result: every pair must equal the field
RECURSIVE FilterMatches(_, _)
FilterMatches(pred, m) ==
  IF pred = <<>> THEN TRUE
  ELSE /\ Head(pred).field \in DOMAIN m
       /\ FieldText(m, Head(pred).field) = Head(pred).value
       /\ FilterMatches(Tail(pred), m)

\* The bridge starts with some set of -dest-queue flags
RouterInit ==
  /\ Init
  /\ cfg = [IPv4 |-> TRUE, IPv6 |-> TRUE, Retry |-> TRUE, RetryCount |-> MaxRetryCount]

RouterStart ==
  /\ arrived = 0 /\ bindings = {}
  /\ \E flags \in SUBSET DestFlags : flags # {} /\ bindings' = flags
  /\ UNCHANGED <<resultsQ, arrived, dests, routed>>
  /\ UNCHANGED <<workerVars, fleetVars, k8sVars>>

\* A worker pushes a payload onto overseer.results
ResultArrives ==
  /\ arrived < MaxResults
  /\ \E p \in Payloads : resultsQ' = Append(resultsQ, p)
  /\ arrived' = arrived + 1
  /\ UNCHANGED <<bindings, dests, routed>>
  /\ UNCHANGED <<workerVars, fleetVars, k8sVars>>

\* The bridge pops a payload and decodes it; what does not decode is logged
\* and dropped, a Result goes to every destination whose filter matches
Route ==
  /\ resultsQ # <<>>
  /\ resultsQ' = Tail(resultsQ)
  /\ LET p == Head(resultsQ)
         m == p.msg[1]
     IN IF p.json
        THEN /\ routed' = Append(routed, m)
             /\ dests' = [q \in DestQueues |->
                  IF \E flag \in bindings :
                       /\ ParseDest(flag).queue = q
                       /\ FilterMatches(ParseDest(flag).pred, m)
                  THEN Append(dests[q], m)
                  ELSE dests[q]]
        ELSE UNCHANGED <<routed, dests>>
  /\ UNCHANGED <<bindings, arrived>>
  /\ UNCHANGED <<workerVars, fleetVars, k8sVars>>

RouterNext == RouterStart \/ ResultArrives \/ Route

RouterSpec == RouterInit /\ [][RouterNext]_vars

----------------------------------------------------------------------------
\* K8SSvcTest.RunTest, the k8s-svc probe

\* Targets handed to the probe: namespace/service, a host name, three parts,
\* and a lone separator
K8sTargets ==
  { <<"default", "/", "kubernetes">>, <<"example.com">>,
    <<"a", "/", "b", "/", "c">>, <<"/">> }

\* tst.Arguments: without min-endpoints, with the empty string, with decimal
\* numbers (as digits), and with a number too large for an int
K8sArguments ==
  { <<>> } \cup
  { [a \in {"min-endpoints"} |-> v] :
      v \in { <<>>, <<"0">>, <<"1">>, <<"2">>, <<"1", "0">>,
              [k \in 1..20 |-> "9"] } }

\* What surrounds the call: whether KUBE_CONFIG_PATH is set, and whether the
\* configuration, the client and the Endpoints query succeed
K8sEnvs ==
  [kubeconfig : BOOLEAN, config : {"ok", "error"}, client : {"ok", "error"},
   get : {"ok", "error"}]

\* The Endpoints object of the service: its subsets, each by its number of
\* addresses
RECURSIVE K8sSubsets(_)
K8sSubsets(n) ==
  IF n = 0 THEN {<<>>}
  ELSE K8sSubsets(n - 1) \cup
       {Append(sub, c) : sub \in {x \in K8sSubsets(n - 1) : Len(x) = n - 1},
                         c \in 0..MaxAddresses}

\* The value of a decimal digit
DigitValue(d) == CHOOSE n \in 0..9 : ToString(n) = d

\* strconv.Atoi on a string of decimal digits: the number, or a range error
\* for what no int holds (here: twenty digits or more, none leading zero);
\* the value that comes with an error is not used by the caller
RECURSIVE AtoiValue(_)
AtoiValue(digits) ==
  IF digits = <<>> THEN 0
  ELSE 10 * AtoiValue(SubSeq(digits, 1, Len(digits) - 1))
         + DigitValue(digits[Len(digits)])

Atoi(digits) ==
  IF Len(digits) >= 20
  THEN [n |-> 0, err |-> Err(<<"strconv.Atoi: parsing">> \o digits
                               \o <<": value out of range">>)]
  ELSE [n |-> AtoiValue(digits), err |-> NilError]

\* EndpointsCount looking at the first subset only
EndpointsCount_FirstSubset(subsets) ==
  IF subsets = <<>> THEN 0 ELSE Head(subsets)

\* endpointsCount: the addresses of every subset, added up
RECURSIVE EndpointsCount(_)
EndpointsCount(subsets) ==
  IF subsets = <<>> THEN 0
  ELSE Head(subsets) + EndpointsCount(Tail(subsets))

\* RunTest: the error it returns, and whether it got as far as the query
K8sRunTest(target, arguments, env, subsets) ==
  LET parts == Count(target, "/") + 1
      arg == IF "min-endpoints" \in DOMAIN arguments
             THEN arguments["min-endpoints"] ELSE <<>>
      conv == IF arg # <<>> THEN Atoi(arg) ELSE [n |-> 0 + 1, err |-> NilError]
      minEndpoints == conv.n
      endpointsCount == EndpointsCount(subsets)
  IN IF parts # 2
     THEN [err |-> Err(<<"not a valid namespace-name/service-name target provided:">>
                         \o target),
           queried |-> FALSE]
     ELSE IF ~conv.err.nil
     THEN [err |-> conv.err, queried |-> FALSE]
     ELSE IF env.config = "error"
     THEN [err |-> Err(<<IF env.kubeconfig THEN "BuildConfigFromFlags failed"
                         ELSE "InClusterConfig failed">>),
           queried |-> FALSE]
     ELSE IF env.client = "error"
     THEN [err |-> Err(<<"NewForConfig failed">>), queried |-> FALSE]
     ELSE IF env.get = "error"
     THEN [err |-> Err(<<"Endpoints Get failed">>), queried |-> TRUE]
     ELSE IF endpointsCount < minEndpoints
     THEN [err |-> Err(<<"number of available endpoints", ToString(endpointsCount),
                         "is lower than min defined", ToString(minEndpoints)>>),
           queried |-> TRUE]
     ELSE [err |-> NilError, queried |-> TRUE]

K8sInit ==
  /\ Init
  /\ cfg = [IPv4 |-> TRUE, IPv6 |-> TRUE, Retry |-> TRUE, RetryCount |-> MaxRetryCount]

\* The worker calls RunTest with a test and a target, in some surroundings
K8sCall ==
  /\ k8s.at = "idle"
  /\ \E target \in K8sTargets, arguments \in K8sArguments, env \in K8sEnvs,
        subsets \in K8sSubsets(MaxSubsets) :
       k8s' = [at |-> "called", target |-> target, arguments |-> arguments,
               env |-> env, subsets |-> subsets]
  /\ UNCHANGED <<workerVars, fleetVars, routerVars>>

\* RunTest returns
K8sReturn ==
  /\ k8s.at = "called"
  /\ k8s' = [k8s EXCEPT !.at = "returned"] @@
            [ret |-> K8sRunTest(k8s.target, k8s.arguments, k8s.env, k8s.subsets)]
  /\ UNCHANGED <<workerVars, fleetVars, routerVars>>

K8sNext == K8sCall \/ K8sReturn

K8sSpec == K8sInit /\ [][K8sNext]_vars

----------------------------------------------------------------------------
\* What the properties speak of

\* runTest has returned for the job that was popped
JobDone == pc = "pop" /\ popped = "job"

Handler == ProtocolHandler(tst.Type)

RunsOf(i) == SelectSeq(runs, LAMBDA r : r.ti = i)

SleepsOf(i) == Len(SelectSeq(sleeps, LAMBDA x : x = i))

PushTargets == [i \in 1..Len(pushes) |-> pushes[i].msg.target]

\* An address is IPv4 when it has a 4-byte form, else IPv6
IsIPv4(ip) == ip.len = 4 \/ (ip.len = 16 /\ ip.prefix = "::ffff:")

FamilyEnabled(ip) == IF IsIPv4(ip) THEN cfg.IPv4 ELSE cfg.IPv6

\* The addresses of the answer whose family is enabled, as text, in order
EnabledAddresses ==
  LET kept == SelectSeq(ips, FamilyEnabled)
  IN [i \in 1..Len(kept) |-> <<kept[i].host>>]

IsPrefix(s, t) == Len(s) <= Len(t) /\ s = SubSeq(t, 1, Len(s))

----------------------------------------------------------------------------
\* C1: when the Target resolves to the addresses A, runTest pushes exactly
\* one Result per address of A whose family (IPv4 or IPv6, one of the two per
\* address) is enabled, in order, and none for an address of a disabled
\* family: while the job runs the pushed targets are a prefix of the enabled
\* addresses, and when it is done they are all of them.
C1_OneResultPerEnabledAddress ==
  dns = "ok" =>
    /\ IsPrefix(PushTargets, EnabledAddresses)
    /\ JobDone => PushTargets = EnabledAddresses

\* C1: a dual-stack answer with IPv6 disabled gave one Result, for the IPv4
\* address
C1_Witness ==
  /\ JobDone
  /\ dns = "ok"
  /\ cfg.IPv4 /\ ~cfg.IPv6
  /\ ips = <<IP6, IP4>>
  /\ PushTargets = << <<"10.0.0.1">> >>

\* C2: a job whose probe's ShouldResolveHostname() is false is run without
\* any DNS lookup, RunTest is given the original Target, and exactly one
\* Result is pushed.
C2_NoResolutionWhenNotWanted ==
  (JobDone /\ Handler # "nil" /\ ~ShouldResolveHostname(Handler)) =>
    /\ lookups = <<>>
    /\ runs # <<>>
    /\ \A i \in 1..Len(runs) : runs[i].target = tst.Target
    /\ Len(pushes) = 1

\* C3: with retrying enabled and RetryCount = N >= 1, a target whose RunTest
\* failed on every attempt was run exactly N times with exactly N-1 sleeps,
\* and its Result is "failed" with the error of the N-th attempt.
C3_AllAttemptsFail ==
  \A i \in 1..Len(pushes) :
    ( /\ dns = "ok"
      /\ cfg.Retry /\ cfg.RetryCount >= 1
      /\ \A j \in 1..Len(RunsOf(i)) : ~RunsOf(i)[j].res.nil ) =>
    /\ Len(RunsOf(i)) = cfg.RetryCount
    /\ SleepsOf(i) = cfg.RetryCount - 1
    /\ pushes[i].msg.result = "failed"
    /\ "error" \in DOMAIN pushes[i].msg
    /\ pushes[i].msg.error = RunsOf(i)[cfg.RetryCount].res.msg

\* C4: with retrying enabled and RetryCount = N, RunTest is never invoked for
\* a target after it passed, and a target whose RunTest first passed on
\* attempt k <= N was run exactly k times and its Result is "passed" without
\* an error field.
C4_PassEndsRetries ==
  cfg.Retry =>
    /\ \A a, b \in 1..Len(runs) :
         (runs[a].ti = runs[b].ti /\ runs[a].res.nil) => b <= a
    /\ \A i \in 1..Len(pushes) :
         (dns = "ok" /\ \E j \in 1..Len(RunsOf(i)) : RunsOf(i)[j].res.nil) =>
           LET k == CHOOSE j \in 1..Len(RunsOf(i)) : RunsOf(i)[j].res.nil
           IN /\ k <= cfg.RetryCount
              /\ Len(RunsOf(i)) = k
              /\ RunsOf(i)[k].attempt = k
              /\ pushes[i].msg.result = "passed"
              /\ "error" \notin DOMAIN pushes[i].msg

\* C4: of three attempts allowed, the second passed and the Result is passed
C4_Witness ==
  /\ JobDone
  /\ cfg.Retry /\ cfg.RetryCount = 3
  /\ Len(pushes) = 1
  /\ Len(RunsOf(1)) = 2
  /\ ~RunsOf(1)[1].res.nil /\ RunsOf(1)[2].res.nil
  /\ pushes[1].msg.result = "passed"

\* C5: when the DNS lookup of the Target fails the job ends at once with
\* exactly one Result pushed, "failed" with a resolution-failure error, and
\* RunTest is not invoked.
C5_ResolutionFailure ==
  dns = "failed" =>
    /\ JobDone
    /\ runs = <<>>
    /\ Len(pushes) = 1
    /\ pushes[1].msg.result = "failed"
    /\ "error" \in DOMAIN pushes[1].msg
    /\ pushes[1].msg.error = <<"Failed to resolve name">> \o lookups[1]

\* C5: the lookup of example.com failed
C5_Witness ==
  /\ dns = "failed"
  /\ lookups = << <<"example.com">> >>
  /\ Len(pushes) = 1
  /\ pushes[1].msg.result = "failed"
  /\ runs = <<>>

\* C6: every Result pushed, on the per-target path and on the
\* resolution-failure path alike, has the sanitized Input as its input, so
\* that the password of the Input is in no published message.
C6_InputAlwaysSanitized ==
  \A i \in 1..Len(pushes) :
    /\ pushes[i].msg.input = Sanitize(tst)
    /\ ~Contains(pushes[i].msg.input, "hunter2")

\* C7 as claimed: the target of every Result pushed is an address that was
\* passed to RunTest for it, and the Target as submitted is the target of a
\* Result only when resolution was skipped for the job.
C7_TargetIsProbedAddress ==
  \A i \in 1..Len(pushes) :
    /\ \E j \in 1..Len(runs) : runs[j].target = pushes[i].msg.target
    /\ pushes[i].msg.target = tst.Target => lookups = <<>>

\* C7 as the code has it: the Result pushed for a target of the range loop
\* has as target the text of the resolved address of that iteration, which is
\* the target of every RunTest call made for that Result; the Result pushed
\* on a resolution failure, for which nothing was probed, has the Target as
\* submitted.
C7_TargetIsResolvedAddress ==
  /\ dns = "failed" => \A i \in 1..Len(pushes) : pushes[i].msg.target = tst.Target
  /\ dns = "ok" =>
       /\ \A i \in 1..Len(pushes) :
            /\ \E n \in 1..Len(ips) : pushes[i].msg.target = <<ips[n].host>>
            /\ \A j \in 1..Len(RunsOf(i)) :
                 RunsOf(i)[j].target = pushes[i].msg.target
       /\ \A j \in 1..Len(runs) :
            runs[j].ti <= Len(pushes) \/ (runs[j].ti = Len(pushes) + 1 /\ pc # "pop")

\* C7: example.com resolved to two addresses, both were probed and each has
\* its Result, neither with the hostname as target
C7_Witness ==
  /\ JobDone
  /\ dns = "ok"
  /\ tst.Target = <<"example.com">>
  /\ PushTargets = << <<"10.0.0.1">>, <<"2001:db8::1">> >>
  /\ RunsOf(1) # <<>> /\ RunsOf(2) # <<>>

\* C8: a job whose Type has no registered probe causes no RunTest call and
\* no Result, and does not crash the worker.
C8_UnknownTypeDropped ==
  (popped = "job" /\ Handler = "nil") =>
    /\ runs = <<>>
    /\ pushes = <<>>
    /\ pc # "crashed"

\* C9: a payload that fails to parse, or an empty pop, causes no RunTest call
\* and no Result and leaves the worker at the blocking dequeue, and no
\* dequeued payload whatever terminates the worker loop.
C9_LoopNeverTerminates ==
  /\ popped \in {"parse_error", "empty"} =>
       runs = <<>> /\ pushes = <<>> /\ pc = "pop"
  /\ pc # "crashed"

\* C10: a failed push is not repeated and does not end the job: whatever
\* pushes failed, the targets up to the one in hand have one push each, a
\* finished job has one push per target, and every target that has its push
\* was run until a pass or maxAttempts times.
C10_PushFailureAbsorbed ==
  dns = "ok" =>
    /\ pc \in {"target", "loop", "sleep"} => Len(pushes) = ti - 1
    /\ JobDone => PushTargets = targets
    /\ \A i \in 1..Len(pushes) :
         LET n == Len(RunsOf(i))
         IN \/ n >= 1 /\ RunsOf(i)[n].res.nil /\ n <= maxAttempts
            \/ /\ \A j \in 1..n : ~RunsOf(i)[j].res.nil
               /\ n = (IF maxAttempts > 0 THEN maxAttempts ELSE 0)

\* C10: the push for the first of two targets failed; the second target was
\* run and pushed all the same
C10_Witness ==
  /\ JobDone
  /\ Len(targets) = 2
  /\ Len(pushes) = 2
  /\ ~pushes[1].ok
  /\ RunsOf(2) # <<>>

\* C13: with retrying disabled, whatever RetryCount is, RunTest was invoked
\* exactly once for every target that has its Result, and the Result is that
\* invocation's outcome: passed when it passed, else failed with its error.
C13_NoRetryRunsOnce ==
  (~cfg.Retry /\ dns = "ok") =>
    \A i \in 1..Len(pushes) :
      /\ Len(RunsOf(i)) = 1
      /\ IF RunsOf(i)[1].res.nil
         THEN pushes[i].msg.result = "passed" /\ "error" \notin DOMAIN pushes[i].msg
         ELSE /\ pushes[i].msg.result = "failed"
              /\ pushes[i].msg.error = RunsOf(i)[1].res.msg

\* C13: retrying disabled with RetryCount 3; the one attempt failed and the
\* Result is failed
C13_Witness ==
  /\ JobDone
  /\ ~cfg.Retry /\ cfg.RetryCount = 3
  /\ Len(pushes) = 1
  /\ Len(runs) = 1
  /\ pushes[1].msg.result = "failed"

\* C14: no step that leaves the worker inside the attempt loop of a target
\* pushes anything, and a step that pushes the Result of a target pushes
\* exactly one message, the first for that target, after the target's
\* attempts have ended (its last RunTest passed, or maxAttempts of them were
\* made), carrying the outcome of the last attempt.
C14_FinalOutcomeOnly ==
  [][ /\ pc' \in {"loop", "sleep"} => pushes' = pushes
      /\ (dns' = "ok" /\ pushes' # pushes) =>
           LET n == Len(RunsOf(ti))
               m == pushes'[Len(pushes')].msg
           IN /\ Len(pushes') = Len(pushes) + 1
              /\ Len(pushes') = ti
              /\ n = 0 \/ RunsOf(ti)[n].res.nil
                       \/ n >= MaxAttempts(cfg.Retry, cfg.RetryCount)
              /\ n > 0 => (m.result = "passed") = RunsOf(ti)[n].res.nil
              /\ (n > 0 /\ m.result = "failed") => m.error = RunsOf(ti)[n].res.msg
    ]_vars

\* C14: three attempts failed and one Result, failed, was pushed
C14_Witness ==
  /\ JobDone
  /\ Len(targets) = 1
  /\ Len(RunsOf(1)) = 3
  /\ \A j \in 1..3 : ~RunsOf(1)[j].res.nil
  /\ Len(pushes) = 1
  /\ pushes[1].msg.error = RunsOf(1)[3].res.msg

\* C15: every RunTest call is for the target that follows the targets already
\* pushed, so the calls and the push for target i come before the first call
\* for target i+1; and the Results are pushed in the order in which the
\* addresses were resolved.
C15_SequentialPerTarget ==
  /\ [][ Len(runs') > Len(runs) =>
           /\ runs' = Append(runs, runs'[Len(runs')])
           /\ runs'[Len(runs')].ti = Len(pushes) + 1
           /\ pushes' = pushes ]_vars
  /\ [](dns = "ok" => PushTargets = SubSeq(EnabledAddresses, 1, Len(pushes)))

\* C15: the answer was the IPv6 address, then the IPv4 address; both were
\* run and pushed in that order
C15_Witness ==
  /\ JobDone
  /\ ips = <<IP6, IP4>>
  /\ PushTargets = << <<"2001:db8::1">>, <<"10.0.0.1">> >>
  /\ RunsOf(1) # <<>> /\ RunsOf(2) # <<>>

\* C17: a Result "passed" is pushed for a target only if a RunTest call for
\* that target in the job passed, whatever the configuration.
C17_PassedMeansProbed ==
  \A i \in 1..Len(pushes) :
    (dns = "ok" /\ pushes[i].msg.result = "passed") =>
      \E j \in 1..Len(RunsOf(i)) : RunsOf(i)[j].res.nil

\* C18: for a Target that holds "://", the name looked up is the host
\* component; a Target that does not parse as a URI ends the job at once
\* with no lookup, no RunTest call and no Result, the worker back at the
\* dequeue.
C18_URITargets ==
  (popped = "job" /\ Contains(tst.Target, "://")) =>
    LET at == CHOOSE j \in 1..Len(tst.Target) : tst.Target[j] = "://"
    IN /\ \A k \in 1..Len(lookups) : lookups[k] = <<tst.Target[at + 1]>>
       /\ pc # "runTest" => (dns = "badurl") = Contains(tst.Target, "%zz")
       /\ (pc # "runTest" /\ dns # "badurl") => Len(lookups) = 1
       /\ dns = "badurl" =>
            JobDone /\ lookups = <<>> /\ runs = <<>> /\ pushes = <<>>

\* C18: https://%zz was dropped without a lookup, a run or a Result
C18_Witness ==
  /\ JobDone
  /\ dns = "badurl"
  /\ tst.Target = <<"https", "://", "%zz">>
  /\ lookups = <<>> /\ runs = <<>> /\ pushes = <<>>

\* C16: the attempt loop of a target makes at most RetryCount RunTest calls
\* (at most one when retrying is disabled) and as many sleeps at most, and,
\* every call returning, a worker that has dequeued a job comes back to the
\* blocking dequeue.
C16_BoundedAndTerminates ==
  LET bound == IF ~cfg.Retry THEN 1
               ELSE IF cfg.RetryCount > 0 THEN cfg.RetryCount ELSE 0
  IN /\ [](\A i \in 1..Len(targets) :
             Len(RunsOf(i)) <= bound /\ SleepsOf(i) <= bound)
     /\ (pc # "pop") ~> (pc = "pop")

\* C11: with several workers popping the same jobs queue, every job is
\* popped at most once, a job that was popped is never on the jobs queue
\* again (also after its worker stopped in the middle of it), and the results
\* queue holds at most one Result per job and target, each from the worker
\* that popped the job.
C11_AtMostOneWorkerPerJob ==
  /\ \A a, b \in BagToSet(taken) :
       a.job = b.job => (a = b /\ CopiesIn(a, taken) = 1)
  /\ \A k \in 1..Len(jobsQ) : \A a \in BagToSet(taken) : jobsQ[k] # a.job
  /\ \A a, b \in BagToSet(delivered) :
       (a.job = b.job /\ a.target = b.target) =>
         (a = b /\ CopiesIn(a, delivered) = 1)
  /\ \A a \in BagToSet(delivered) :
       [job |-> a.job, worker |-> a.worker] \in BagToSet(taken)

\* C11: worker 1 stopped after the first of the two targets of job 1, worker
\* 2 is running job 2, and job 1 is not on the jobs queue
C11_Witness ==
  /\ workers[1] = [state |-> "stopped", job |-> 1, n |-> 2, at |-> 2]
  /\ workers[2].state = "running" /\ workers[2].job = 2
  /\ \A k \in 1..Len(jobsQ) : jobsQ[k] # 1
  /\ \E a \in BagToSet(delivered) : a.job = 1

\* C12: for every Result the router has taken and every destination it was
\* configured with, the Result is on the destination's queue, unmodified and
\* once, if and only if the destination's predicate is empty or every
\* field=value pair of it equals the Result's field; a queue that no
\* destination names gets nothing.
C12_RouterForwarding ==
  \A q \in DestQueues :
    LET named == {flag \in bindings : flag[1] = q}
        pairs(flag) == {k \in 2..Len(flag) : flag[k] = "="}
        holds(flag, m) ==
          \A k \in pairs(flag) :
            /\ flag[k - 1] \in DOMAIN m
            /\ <<flag[k + 1]>> = (IF flag[k - 1] \in {"type", "result"}
                                  THEN <<m[flag[k - 1]]>> ELSE m[flag[k - 1]])
        wanted(m) == \E flag \in named : holds(flag, m)
    IN dests[q] = SelectSeq(routed, wanted)

\* C12: the failed ssh Result for 10.0.0.1 is on alerts[target=10.0.0.1], on
\* the unfiltered queue and on the failures queue, and not on
\* other[target=10.0.0.2]
C12_Witness ==
  LET m == NotifyMsg([Type |-> "ssh", Target |-> <<"10.0.0.1">>,
                      Input |-> <<"10.0.0.1", "must", "run", "ssh">>],
                     Err(<<"connection refused">>))
  IN /\ bindings = DestFlags
     /\ routed = <<m>>
     /\ dests["overseer.results.alerts"] = <<m>>
     /\ dests["overseer.results.email"] = <<m>>
     /\ dests["overseer.results.failures"] = <<m>>
     /\ dests["overseer.results.other"] = <<>>

\* What C19 speaks of: the two parts of the target, the addresses of the
\* service in all, and whether they reach min-endpoints (1 when the argument
\* is absent or empty; a number no int holds is reached by no service)
K8sTwoParts == Cardinality({k \in 1..Len(k8s.target) : k8s.target[k] = "/"}) = 1

K8sTotal ==
  Cardinality({p \in (1..Len(k8s.subsets)) \X (1..(MaxAddresses + 1)) :
                 p[2] <= k8s.subsets[p[1]]})

K8sEnough ==
  LET given == "min-endpoints" \in DOMAIN k8s.arguments
               /\ k8s.arguments["min-endpoints"] # <<>>
      arg == k8s.arguments["min-endpoints"]
  IN IF ~given THEN K8sTotal >= 1
     ELSE Atoi(arg).err.nil /\ K8sTotal >= Atoi(arg).n

K8sReachable ==
  k8s.env.config = "ok" /\ k8s.env.client = "ok" /\ k8s.env.get = "ok"

\* C19 as stated: RunTest returns an error without querying the cluster when
\* the target does not split on "/" into exactly two parts; otherwise it
\* passes if and only if the addresses of all subsets of the service, added
\* up, are at least min-endpoints.
C19_PassIffEnoughEndpoints ==
  k8s.at = "returned" =>
    IF ~K8sTwoParts
    THEN ~k8s.ret.err.nil /\ ~k8s.ret.queried
    ELSE k8s.ret.err.nil <=> K8sEnough

\* C19, amended: RunTest returns an error without querying the cluster when
\* the target does not split on "/" into exactly two parts; otherwise, when
\* the cluster configuration, the client and the Endpoints query all succeed,
\* it passes if and only if the addresses of all subsets of the service, added
\* up, are at least min-endpoints (1 when the argument is absent or empty),
\* and when any of them fails it returns an error.
C19_PassIffEnoughWhenReachable ==
  k8s.at = "returned" =>
    IF ~K8sTwoParts
    THEN ~k8s.ret.err.nil /\ ~k8s.ret.queried
    ELSE IF K8sReachable
    THEN k8s.ret.err.nil <=> K8sEnough
    ELSE ~k8s.ret.err.nil

\* C19: default/kubernetes with min-endpoints 2 and two subsets of one address
\* each passes, the cluster having been queried
C19_Witness ==
  /\ k8s.at = "returned"
  /\ k8s.target = <<"default", "/", "kubernetes">>
  /\ "min-endpoints" \in DOMAIN k8s.arguments
  /\ k8s.arguments["min-endpoints"] = <<"2">>
  /\ k8s.subsets = <<1, 1>>
  /\ K8sReachable
  /\ k8s.ret.queried
  /\ k8s.ret.err.nil

====
